---- MODULE Spec2Model ----
(***************************************************************************)
(* Model of src/app.py: the DOI batch downloader.                          *)
(*                                                                         *)
(* Strings are sequences of tokens.  Every token is a literal piece of     *)
(* text and a string is the concatenation of its tokens.  The tokens are   *)
(* chosen so that the resolver prefix "https://doi.org/" occurs in a       *)
(* string exactly where the token "https://d" is directly followed by the  *)
(* token "oi.org/" (no other token holds an 'h'), so startswith / replace  *)
(* on token sequences act as they do on the characters.                    *)
(***************************************************************************)
EXTENDS Integers, Sequences, FiniteSets, TLC

VARIABLES
    doi_list,         \* batch_download: the input list
    mirrors,          \* batch_download: the mirror list
    successful_dois,  \* batch_download: result list
    failed_dois,      \* batch_download: result list
    i,                \* batch_download: number of list entries entered so far
    pc,               \* control position inside batch_download
    m,                \* try_download_with_mirrors: index of the current mirror
    success,          \* value returned by try_download_with_mirrors
    trace,            \* what the current DOI's chain has done so far
    dir_exists,       \* os.path.exists(output_dir)
    files,            \* names of the files in output_dir
    oa_payload,       \* payload the open-access path fetched for the current DOI
    raw,              \* normalizer: the raw input string
    norm,             \* normalizer: the result
    norm_done,        \* normalizer: has been applied
    html,             \* link extractor: the parsed page
    pdf_url,          \* link extractor: the result
    extracted,        \* link extractor: has been applied
    oa_api,           \* download_open_access: the Unpaywall response of the current DOI
    oa_fetch,         \* download_open_access: the URL of the PDF fetch it issued, if any
    zip_buffer,       \* main: st.session_state.zip_buffer
    failed_buffer,    \* main: st.session_state.failed_buffer
    files_at_start,   \* the files in output_dir when the batch started
    cand,             \* URL resolver: the extracted pdf_url
    base,             \* URL resolver: sci_hub_url
    resolved,         \* URL resolver: the result
    resolve_done,     \* URL resolver: has been applied
    content,          \* validator: the downloaded payload
    content_type,     \* validator: the Content-Type header
    accepted,         \* validator: download_paper kept the file
    validated,        \* validator: has been applied
    selected_defaults, \* main: the multiselect value
    custom_lines,     \* main: the lines of the text area
    all_mirrors,      \* main: the list handed to batch_download
    mirrors_built,    \* main: lines 280-288 have run
    f_url,            \* fetch_with_bypass: url
    f_headers,        \* fetch_with_bypass: headers
    f_pc,             \* fetch_with_bypass: control position
    f_requests,       \* fetch_with_bypass: the GETs issued so far
    f_responses       \* fetch_with_bypass: what each GET answered

vars == <<doi_list, mirrors, successful_dois, failed_dois, i, pc, m, success,
          trace, dir_exists, files, oa_payload, raw, norm, norm_done,
          html, pdf_url, extracted, oa_api, oa_fetch, zip_buffer,
          failed_buffer, files_at_start, cand, base, resolved, resolve_done,
          content, content_type, accepted, validated, selected_defaults,
          custom_lines, all_mirrors, mirrors_built, f_url, f_headers, f_pc,
          f_requests, f_responses>>

batchVars == <<doi_list, mirrors, successful_dois, failed_dois, i, pc, m,
               success, trace, dir_exists, files, oa_payload, oa_api, oa_fetch,
               zip_buffer, failed_buffer, files_at_start>>
normVars == <<raw, norm, norm_done>>
extractVars == <<html, pdf_url, extracted>>
resolveVars == <<cand, base, resolved, resolve_done>>
validateVars == <<content, content_type, accepted, validated>>
mirrorVars == <<selected_defaults, custom_lines, all_mirrors, mirrors_built>>
fetchVars == <<f_url, f_headers, f_pc, f_requests, f_responses>>

\* everything but the batch
otherVars == <<normVars, extractVars, resolveVars, validateVars, mirrorVars, fetchVars>>

----------------------------------------------------------------------------
(* Bounds *)

MaxDois == 2
MaxLen == 4
MaxNodes == 2

----------------------------------------------------------------------------
(* Strings *)

\* 'https://doi.org/'
DoiPrefix == <<"https://d", "oi.org/">>

Whitespace == {" "}

StartsWith(s, p) ==
    /\ Len(s) >= Len(p)
    /\ SubSeq(s, 1, Len(p)) = p

EndsWith(s, p) ==
    /\ Len(s) >= Len(p)
    /\ SubSeq(s, Len(s) - Len(p) + 1, Len(s)) = p

RECURSIVE LStrip(_)
LStrip(s) ==
    IF s # <<>> /\ Head(s) \in Whitespace THEN LStrip(Tail(s)) ELSE s

RECURSIVE RStrip(_)
RStrip(s) ==
    IF s # <<>> /\ s[Len(s)] \in Whitespace
    THEN RStrip(SubSeq(s, 1, Len(s) - 1))
    ELSE s

\* str.strip()
Strip(s) == RStrip(LStrip(s))

\* str.replace(old, new): every non-overlapping occurrence, left to right
RECURSIVE Replace(_, _, _)
Replace(s, old, new) ==
    IF s = <<>> THEN <<>>
    ELSE IF StartsWith(s, old)
         THEN new \o Replace(SubSeq(s, Len(old) + 1, Len(s)), old, new)
         ELSE <<Head(s)>> \o Replace(Tail(s), old, new)

\* a slip that forgets doi.strip()
NormalizeDoiNoStrip(s) ==
    IF StartsWith(s, DoiPrefix)
    THEN Replace(s, DoiPrefix, <<>>)
    ELSE s

\* download_paper: doi.strip(); startswith(prefix) -> replace(prefix, '')
NormalizeDoi(s) ==
    LET t == Strip(s)
    IN  IF StartsWith(t, DoiPrefix)
        THEN Replace(t, DoiPrefix, <<>>)
        ELSE t

\* one token with '/' and '\' replaced by '_'
SanitizeToken(c) ==
    CASE c = "/" -> "_"
      [] c = "\\" -> "_"
      [] c = "https://d" -> "https:__d"
      [] c = "oi.org/" -> "oi.org_"
      [] OTHER -> c

\* doi.replace('/', '_').replace('\\', '_')
SafeDoi(s) == [k \in 1..Len(s) |-> SanitizeToken(s[k])]

\* os.path.join(output_dir, f"{safe_doi}.pdf"), relative to output_dir
FileName(s) == SafeDoi(s) \o <<".pdf">>

----------------------------------------------------------------------------
(* Parsed pages and the PDF link heuristics (download_paper, lines 80-111) *)

\* an attribute value: absent (None), or a string (possibly empty)
NoAttr == [has |-> FALSE, val |-> <<>>]
Attr(v) == [has |-> TRUE, val |-> v]

\* Python truthiness of tag.get(...) and of pdf_url
Truthy(a) == a.has /\ a.val # <<>>

\* A page is the sequence, in document order, of its iframe, embed and a
\* elements.  attr is the element's src (iframe, embed) or href (a).
\* box tells where the element sits: "div" inside the first <div id=download>,
\* "other" inside an element with id=download that is not a div, "none"
\* elsewhere.
Tags == {"iframe", "embed", "a"}
Boxes == {"none", "div", "other"}
AttrPool == {NoAttr, Attr(<<>>), Attr(<<"/v", ".pdf">>), Attr(<<"/get">>)}
Elements == [tag : Tags, attr : AttrPool, box : Boxes]

\* soup.find(tag): index of the first element with the tag, 0 if none
Find(doc, tag) ==
    IF \E k \in 1..Len(doc) : doc[k].tag = tag
    THEN CHOOSE k \in 1..Len(doc) :
            /\ doc[k].tag = tag
            /\ \A j \in 1..(k - 1) : doc[j].tag # tag
    ELSE 0

\* lines 84-86 and 89-91: the first element's src, if it has one
FirstSrc(doc, tag) ==
    LET k == Find(doc, tag)
    IN  IF k # 0 /\ Truthy(doc[k].attr) THEN doc[k].attr ELSE NoAttr

\* lines 94-98: the first anchor whose href ends with '.pdf'
PdfAnchorHref(doc) ==
    LET hit(k) == /\ doc[k].tag = "a"
                  /\ Truthy(doc[k].attr)
                  /\ EndsWith(doc[k].attr.val, <<".pdf">>)
    IN  IF \E k \in 1..Len(doc) : hit(k)
        THEN doc[CHOOSE k \in 1..Len(doc) :
                    hit(k) /\ \A j \in 1..(k - 1) : ~hit(j)].attr
        ELSE NoAttr

\* lines 101-107: the first anchor with an href inside soup.find('div', id='download')
DownloadDivHref(doc) ==
    LET hit(k) == /\ doc[k].tag = "a"
                  /\ doc[k].box = "div"
                  /\ Truthy(doc[k].attr)
    IN  IF \E k \in 1..Len(doc) : hit(k)
        THEN doc[CHOOSE k \in 1..Len(doc) :
                    hit(k) /\ \A j \in 1..(k - 1) : ~hit(j)].attr
        ELSE NoAttr

\* a slip that looks for a direct '.pdf' anchor before the framed viewers
ExtractPdfLinkAnchorFirst(doc) ==
    LET u1 == PdfAnchorHref(doc)
        u2 == IF Truthy(u1) THEN u1 ELSE FirstSrc(doc, "iframe")
        u3 == IF Truthy(u2) THEN u2 ELSE FirstSrc(doc, "embed")
        u4 == IF Truthy(u3) THEN u3 ELSE DownloadDivHref(doc)
    IN  u4

\* lines 81-111: pdf_url after the four "if not pdf_url" blocks
ExtractPdfLink(doc) ==
    LET u1 == FirstSrc(doc, "iframe")
        u2 == IF Truthy(u1) THEN u1 ELSE FirstSrc(doc, "embed")
        u3 == IF Truthy(u2) THEN u2 ELSE PdfAnchorHref(doc)
        u4 == IF Truthy(u3) THEN u3 ELSE DownloadDivHref(doc)
    IN  u4

----------------------------------------------------------------------------
(* Payloads and content validation (download_paper, lines 138-145) *)

SizeFloor == 10000

\* A payload is its length in bytes and whether its first 1,000 bytes,
\* lower-cased, hold '<html' or '<!doctype html'.
NoPayload == [size |-> -1, marker |-> FALSE]
Payloads == {[size |-> 500, marker |-> TRUE],
             [size |-> 500, marker |-> FALSE],
             [size |-> 10000, marker |-> TRUE]}

\* a slip that sniffs files of any size
RejectAsHtmlAnySize(p) == p.marker

\* lines 138-145: the written file is taken for an HTML page and removed
RejectAsHtml(p) == p.size < SizeFloor /\ p.marker

----------------------------------------------------------------------------
(* Unpaywall answer (download_open_access, lines 164-172) *)

\* best: best_oa_location.url_for_pdf (absent also when there is no
\* best_oa_location); locs: the url_for_pdf of each entry of oa_locations
NoJson == [best |-> NoAttr, locs |-> <<>>]
OaUrl == Attr(<<"https://oa/", "p", ".pdf">>)
OaUrl2 == Attr(<<"https://repo/", "q", ".pdf">>)
JsonPool == {NoJson,
             [best |-> OaUrl, locs |-> <<>>],
             [best |-> OaUrl, locs |-> <<OaUrl2>>],
             [best |-> NoAttr, locs |-> <<NoAttr>>],
             [best |-> NoAttr, locs |-> <<NoAttr, OaUrl>>],
             [best |-> NoAttr, locs |-> <<OaUrl2, OaUrl>>],
             [best |-> Attr(<<>>), locs |-> <<>>],
             [best |-> Attr(<<>>), locs |-> <<NoAttr, OaUrl2>>]}

\* a slip that scans oa_locations before looking at best_oa_location
OaPdfUrlLocationsFirst(data) ==
    IF \E k \in 1..Len(data.locs) : Truthy(data.locs[k])
    THEN data.locs[CHOOSE k \in 1..Len(data.locs) :
             /\ Truthy(data.locs[k])
             /\ \A j \in 1..(k - 1) : ~Truthy(data.locs[j])]
    ELSE IF Truthy(data.best) THEN data.best
    ELSE NoAttr

\* lines 165-172
OaPdfUrl(data) ==
    IF Truthy(data.best) THEN data.best
    ELSE IF \E k \in 1..Len(data.locs) : Truthy(data.locs[k])
         THEN data.locs[CHOOSE k \in 1..Len(data.locs) :
                  /\ Truthy(data.locs[k])
                  /\ \A j \in 1..(k - 1) : ~Truthy(data.locs[j])]
         ELSE NoAttr

----------------------------------------------------------------------------
(* What the network and the file system may answer *)

\* a response of fetch_with_bypass / requests.get: exc is a transport
\* exception raised instead of a response
Resp(st, b) == [exc |-> FALSE, status |-> st, body |-> b]
Raised(b) == [exc |-> TRUE, status |-> 0, body |-> b]

PageWithLink == <<[tag |-> "iframe", attr |-> Attr(<<"/v", ".pdf">>), box |-> "none"]>>
PageResponses == {Raised(<<>>), Resp(404, <<>>), Resp(200, <<>>), Resp(200, PageWithLink)}
PdfResponses == {Raised(NoPayload), Resp(404, NoPayload)}
                    \cup {Resp(200, p) : p \in Payloads}
ApiResponses == {Raised(NoJson), Resp(404, NoJson)}
                    \cup {Resp(200, j) : j \in JsonPool}

\* os.makedirs(output_dir) succeeds or raises OSError
MkdirOutcomes == {"ok", "raise"}
\* open(filename, 'wb') raises before the file exists; f.write raises after
\* open has created the file; or both succeed
WriteOutcomes == {"ok", "open_raises", "write_raises"}

----------------------------------------------------------------------------
(* download_paper and download_open_access *)

Outcome(r, d, f, p) == [ret |-> r, dir_exists |-> d, files |-> f, payload |-> p]

\* lines 57-152.  payload is the payload fetched with status 200, if any;
\* ret is "True", "False", or "raise" when an exception leaves
\* the function (os.makedirs at line 62 is outside the try block).
DownloadPaper(doi, mk, page, pdf, wr, dex, fls) ==
    LET d == NormalizeDoi(doi)
        filename == FileName(d)
        link == ExtractPdfLink(page.body)
    IN  IF ~dex /\ mk = "raise" THEN Outcome("raise", FALSE, fls, NoPayload)
        ELSE IF page.exc \/ page.status # 200 THEN Outcome("False", TRUE, fls, NoPayload)
        ELSE IF ~Truthy(link) THEN Outcome("False", TRUE, fls, NoPayload)
        ELSE IF pdf.exc \/ pdf.status # 200 THEN Outcome("False", TRUE, fls, NoPayload)
        ELSE IF wr = "open_raises" THEN Outcome("False", TRUE, fls, pdf.body)
        ELSE IF wr = "write_raises"
             THEN Outcome("False", TRUE, fls \cup {filename}, pdf.body)
        ELSE IF RejectAsHtml(pdf.body)
             THEN Outcome("False", TRUE, fls \ {filename}, pdf.body)
        ELSE Outcome("True", TRUE, fls \cup {filename}, pdf.body)

\* lines 160-175: the URL the PDF is fetched from, none when the request
\* raises, the status is not 200 or the answer names no PDF
OaLookup(api) ==
    IF api.exc \/ api.status # 200 THEN NoAttr ELSE OaPdfUrl(api.body)

\* lines 154-194.  Everything is inside the try block; the doi is used as
\* it was passed in; the payload is written without being inspected.
DownloadOpenAccess(doi, api, pdf, mk, wr, dex, fls) ==
    LET filename == FileName(doi)
        url == OaLookup(api)
    IN  IF ~Truthy(url) THEN Outcome("False", dex, fls, NoPayload)
        ELSE IF pdf.exc \/ pdf.status # 200 THEN Outcome("False", dex, fls, NoPayload)
        ELSE IF ~dex /\ mk = "raise" THEN Outcome("False", FALSE, fls, pdf.body)
        ELSE IF wr = "open_raises" THEN Outcome("False", TRUE, fls, pdf.body)
        ELSE IF wr = "write_raises"
             THEN Outcome("False", TRUE, fls \cup {filename}, pdf.body)
        ELSE Outcome("True", TRUE, fls \cup {filename}, pdf.body)

----------------------------------------------------------------------------
(* Relative PDF links (download_paper, lines 113-119) *)

\* URL strings are sequences of these tokens; '//' is <<"/", "/">> and
\* 'http://' is <<"http:", "/", "/">>
UrlTokens == {"/", "http:", "https:", "ftp:", "host", "a.pdf"}
SchemeTokens == {"http:", "https:", "ftp:"}

\* urlparse(u): f"{scheme}://{netloc}"; both parts are empty when u has no
\* 'scheme://' at its head
Origin(u) ==
    IF Len(u) >= 3 /\ u[1] \in SchemeTokens /\ u[2] = "/" /\ u[3] = "/"
    THEN LET rest == SubSeq(u, 4, Len(u))
             stops == {k \in 1..Len(rest) : rest[k] = "/"}
             n == IF stops = {} THEN Len(rest)
                  ELSE (CHOOSE k \in stops : \A j \in stops : k <= j) - 1
         IN  SubSeq(u, 1, 3) \o SubSeq(rest, 1, n)
    ELSE <<":", "/", "/">>

\* lines 114-119
ResolveUrl(c, b) ==
    IF StartsWith(c, <<"/", "/">>)
    THEN <<"https:">> \o c
    ELSE IF ~(StartsWith(c, <<"http:", "/", "/">>) \/ StartsWith(c, <<"https:", "/", "/">>))
    THEN IF StartsWith(c, <<"/">>)
         THEN Origin(b) \o c
         ELSE Origin(b) \o <<"/">> \o c
    ELSE c

----------------------------------------------------------------------------
(* The bytes of a payload (download_paper, lines 138-142) *)

SniffWindow == 1000

\* A downloaded body is its length in bytes and at most one word of
\* interest, at byte offset at (at = -1: none).
Words == {"<html", "<HTML", "<!doctype html", "<!DOCTYPE HTML", "<htm", "%PDF"}

WordLen(w) ==
    CASE w \in {"<html", "<HTML"} -> 5
      [] w \in {"<!doctype html", "<!DOCTYPE HTML"} -> 14
      [] w \in {"<htm", "%PDF"} -> 4
      [] OTHER -> 0

\* str.lower()
Lower(w) ==
    CASE w = "<HTML" -> "<html"
      [] w = "<!DOCTYPE HTML" -> "<!doctype html"
      [] w = "%PDF" -> "%pdf"
      [] OTHER -> w

\* lines 140-142: f.read(1000), lower-cased, holds one of the two markers
MarkerInStart(c) ==
    LET n == IF c.size < SniffWindow THEN c.size ELSE SniffWindow
    IN  /\ c.at >= 0
        /\ c.at + WordLen(c.word) <= n
        /\ Lower(c.word) \in {"<html", "<!doctype html"}

\* what lines 138-142 look at
Sniff(c) == [size |-> c.size, marker |-> MarkerInStart(c)]


----------------------------------------------------------------------------
(* fetch_with_bypass (lines 24-31) *)

\* a retry on any status but 200
NeedsBypassAnyError(status) == status # 200

\* line 27
NeedsBypass(status) == status = 403

\* line 29: f"https://r.jina.ai/{url}"
ProxyUrl(u) == <<"https://r.jina.ai/">> \o u

\* requests.get(url, headers=headers, timeout=30)
Get(u, h) == [url |-> u, headers |-> h]

----------------------------------------------------------------------------
(* batch_download and try_download_with_mirrors *)

MaxMirrors == 3

\* main, lines 271-275
DefaultMirrors == <<"https://sci-hub.box/", "https://sci-hub.se/", "https://sci-hub.wf/">>

\* the mirror lists main hands over here: never empty, at most three
MirrorLists == {SubSeq(DefaultMirrors, 1, n) : n \in 1..MaxMirrors}

\* line 280: the stripped lines of the text area that are not blank
CustomMirrorsList(lines) ==
    LET stripped == [k \in 1..Len(lines) |-> Strip(lines[k])]
        NotBlank(l) == l # <<>>
    IN  SelectSeq(stripped, NotBlank)

\* list(dict.fromkeys(s)): the first occurrence of every entry, in order
RECURSIVE Dedup(_)
Dedup(s) ==
    IF s = <<>> THEN <<>>
    ELSE LET r == Dedup(SubSeq(s, 1, Len(s) - 1))
             x == s[Len(s)]
         IN  IF \E k \in 1..Len(r) : r[k] = x THEN r ELSE Append(r, x)

\* a slip that forgets the cap
BuildMirrorsNoCap(sel, lines, defaults) ==
    LET a == Dedup(sel \o CustomMirrorsList(lines))
    IN  IF a = <<>> THEN defaults ELSE a

\* lines 283-288
BuildMirrors(sel, lines, defaults) ==
    LET a == Dedup(sel \o CustomMirrorsList(lines))
        b == IF a = <<>> THEN defaults ELSE a
    IN  IF Len(b) > MaxMirrors THEN SubSeq(b, 1, MaxMirrors) ELSE b

SeqsUpTo(S, n) == UNION {[1..k -> S] : k \in 0..n}

\* entries of the uploaded file after main's strip().strip('"')
DoiA == <<"10.1", "/", "A">>
DoiB == DoiPrefix \o <<"10.1", "/", "B">>
DoiC == <<"10.1", "_", "A">>
\* two DOIs on two lines with no comma between them: content.split(",")
\* keeps them as one entry, and strip() leaves the inner line break
DoiD == <<"10.1", "/", "D", "\n", "10.1", "/", "E">>
DoiPool == {DoiA, DoiB, DoiC, DoiD}

\* no request made yet
NoApi == [exc |-> FALSE, status |-> 0, body |-> NoJson]
\* a session key that is absent or None
NoZip == [has |-> FALSE, names |-> {}]
NoManifest == [has |-> FALSE, text |-> <<>>]

\* lines 219-231: os.walk visits every file under the output directory
\* (none when the directory is missing); each is stored under its bare name
ZipPapers(dex, fls) == [has |-> TRUE, names |-> IF dex THEN fls ELSE {}]

\* "\n".join(failed_list)
RECURSIVE JoinLines(_)
JoinLines(l) ==
    IF l = <<>> THEN <<>>
    ELSE IF Len(l) = 1 THEN l[1]
    ELSE l[1] \o <<"\n">> \o JoinLines(Tail(l))

\* lines 233-240
FailedDoisFile(failed_list) == [has |-> TRUE, text |-> JoinLines(failed_list)]

\* one step of a DOI's chain
Event(k, mi, r, d) == [kind |-> k, m |-> mi, ret |-> r, doi |-> d]

\* a slip that goes on to the next mirror whatever download_paper returned
NextAfterMirrorNoStop(ret) ==
    IF ret = "raise" THEN "raised" ELSE "sleep"

\* lines 46-53: return True on success, else sleep; an exception leaves the loop
NextAfterMirror(ret) ==
    IF ret = "True" THEN "record"
    ELSE IF ret = "raise" THEN "raised"
    ELSE "sleep"

\* an off-by-one that leaves the loop before the last mirror
LoopNextSkipsLast(k, n) ==
    IF k < n - 1 THEN "mirror" ELSE "oa"

\* lines 44, 54-55: the for loop takes the next mirror, or falls through to
\* download_open_access
LoopNext(k, n) ==
    IF k < n THEN "mirror" ELSE "oa"

\* a slip that drops the else branch
FailedAfterNoElse(failed, doi, ok) == failed

\* lines 211-212
SuccessfulAfter(successful, doi, ok) ==
    IF ok THEN Append(successful, doi) ELSE successful

\* lines 213-214
FailedAfter(failed, doi, ok) ==
    IF ok THEN failed ELSE Append(failed, doi)

BatchInit ==
    /\ doi_list \in SeqsUpTo(DoiPool, MaxDois)
    /\ mirrors \in MirrorLists
    /\ successful_dois = <<>>
    /\ failed_dois = <<>>
    /\ i = 0
    /\ pc = "loop"
    /\ m = 1
    /\ success = FALSE
    /\ trace = <<>>
    /\ dir_exists \in BOOLEAN
    /\ files = {}
    /\ oa_payload = NoPayload
    /\ oa_api = NoApi
    /\ oa_fetch = NoAttr
    /\ zip_buffer = NoZip
    /\ failed_buffer = NoManifest
    /\ files_at_start = {}

BatchIdle ==
    /\ doi_list = <<>>
    /\ mirrors = DefaultMirrors
    /\ successful_dois = <<>>
    /\ failed_dois = <<>>
    /\ i = 0
    /\ pc = "idle"
    /\ m = 1
    /\ success = FALSE
    /\ trace = <<>>
    /\ dir_exists = FALSE
    /\ files = {}
    /\ oa_payload = NoPayload
    /\ oa_api = NoApi
    /\ oa_fetch = NoAttr
    /\ zip_buffer = NoZip
    /\ failed_buffer = NoManifest
    /\ files_at_start = {}

NormIdle == raw = <<>> /\ norm = <<>> /\ norm_done = FALSE
ExtractIdle == html = <<>> /\ pdf_url = NoAttr /\ extracted = FALSE
ResolveIdle == cand = <<>> /\ base = <<>> /\ resolved = <<>> /\ resolve_done = FALSE
ValidateIdle ==
    /\ content = [size |-> 0, at |-> -1, word |-> ""]
    /\ content_type = ""
    /\ accepted = FALSE
    /\ validated = FALSE
MirrorIdle ==
    /\ selected_defaults = <<>>
    /\ custom_lines = <<>>
    /\ all_mirrors = <<>>
    /\ mirrors_built = FALSE
FetchIdle ==
    /\ f_url = <<>>
    /\ f_headers = ""
    /\ f_pc = "idle"
    /\ f_requests = <<>>
    /\ f_responses = <<>>

\* line 206: the loop enters the next entry; line 210 calls the chain
BatchNext ==
    /\ pc = "loop"
    /\ i < Len(doi_list)
    /\ i' = i + 1
    /\ m' = 1
    /\ trace' = <<>>
    /\ success' = FALSE
    /\ oa_payload' = NoPayload
    /\ oa_api' = NoApi
    /\ oa_fetch' = NoAttr
    /\ pc' = LoopNext(0, Len(mirrors))
    /\ UNCHANGED <<doi_list, mirrors, successful_dois, failed_dois, dir_exists, files>>
    /\ UNCHANGED <<zip_buffer, failed_buffer, files_at_start>>
    /\ UNCHANGED otherVars

\* lines 45-50: download_paper on the current mirror
TryMirror ==
    /\ pc = "mirror"
    /\ \E mk \in MkdirOutcomes, page \in PageResponses,
          pdf \in PdfResponses, wr \in WriteOutcomes :
          LET o == DownloadPaper(doi_list[i], mk, page, pdf, wr, dir_exists, files)
          IN  /\ trace' = Append(trace, Event("mirror", m, o.ret, NormalizeDoi(doi_list[i])))
              /\ dir_exists' = o.dir_exists
              /\ files' = o.files
              /\ success' = (o.ret = "True")
              /\ pc' = NextAfterMirror(o.ret)
    /\ UNCHANGED <<doi_list, mirrors, successful_dois, failed_dois, i, m, oa_payload>>
    /\ UNCHANGED <<oa_api, oa_fetch, zip_buffer, failed_buffer, files_at_start>>
    /\ UNCHANGED otherVars

\* lines 51-53: time.sleep(delay), then the for loop goes on
Sleep ==
    /\ pc = "sleep"
    /\ trace' = Append(trace, Event("sleep", m, "-", <<>>))
    /\ pc' = LoopNext(m, Len(mirrors))
    /\ m' = IF pc' = "mirror" THEN m + 1 ELSE m
    /\ UNCHANGED <<doi_list, mirrors, successful_dois, failed_dois, i, success,
                   dir_exists, files, oa_payload>>
    /\ UNCHANGED <<oa_api, oa_fetch, zip_buffer, failed_buffer, files_at_start>>
    /\ UNCHANGED otherVars

\* lines 54-55: download_open_access with the doi as passed to the chain
OpenAccess ==
    /\ pc = "oa"
    /\ \E api \in ApiResponses, pdf \in PdfResponses,
          mk \in MkdirOutcomes, wr \in WriteOutcomes :
          LET o == DownloadOpenAccess(doi_list[i], api, pdf, mk, wr, dir_exists, files)
          IN  /\ trace' = Append(trace, Event("oa", 0, o.ret, doi_list[i]))
              /\ dir_exists' = o.dir_exists
              /\ files' = o.files
              /\ success' = (o.ret = "True")
              /\ oa_payload' = o.payload
              /\ oa_api' = api
              /\ oa_fetch' = OaLookup(api)
    /\ pc' = "record"
    /\ UNCHANGED <<doi_list, mirrors, successful_dois, failed_dois, i, m>>
    /\ UNCHANGED <<zip_buffer, failed_buffer, files_at_start>>
    /\ UNCHANGED otherVars

\* lines 211-215: the entry is appended to one of the two lists
Record ==
    /\ pc = "record"
    /\ successful_dois' = SuccessfulAfter(successful_dois, doi_list[i], success)
    /\ failed_dois' = FailedAfter(failed_dois, doi_list[i], success)
    /\ pc' = "loop"
    /\ oa_api' = NoApi
    /\ oa_fetch' = NoAttr
    /\ UNCHANGED <<doi_list, mirrors, i, m, success, trace, dir_exists, files, oa_payload>>
    /\ UNCHANGED <<zip_buffer, failed_buffer, files_at_start>>
    /\ UNCHANGED otherVars

\* line 217
BatchReturn ==
    /\ pc = "loop"
    /\ i = Len(doi_list)
    /\ pc' = "done"
    /\ UNCHANGED <<doi_list, mirrors, successful_dois, failed_dois, i, m, success,
                   trace, dir_exists, files, oa_payload>>
    /\ UNCHANGED <<oa_api, oa_fetch, zip_buffer, failed_buffer, files_at_start>>
    /\ UNCHANGED otherVars

\* main, lines 307-319: the two download buffers of the session
Package ==
    /\ pc = "done"
    /\ zip_buffer' = IF successful_dois # <<>> THEN ZipPapers(dir_exists, files)
                     ELSE NoZip
    /\ failed_buffer' = IF failed_dois # <<>> THEN FailedDoisFile(failed_dois)
                        ELSE NoManifest
    /\ pc' = "packaged"
    /\ UNCHANGED <<doi_list, mirrors, successful_dois, failed_dois, i, m, success,
                   trace, dir_exists, files, oa_payload, oa_api, oa_fetch,
                   files_at_start>>
    /\ UNCHANGED otherVars

Init ==
    /\ BatchInit
    /\ NormIdle /\ ExtractIdle /\ ResolveIdle /\ ValidateIdle /\ MirrorIdle /\ FetchIdle

Next ==
    \/ BatchNext
    \/ TryMirror
    \/ Sleep
    \/ OpenAccess
    \/ Record
    \/ BatchReturn
    \/ Package

Spec == Init /\ [][Next]_vars

----------------------------------------------------------------------------
(* The DOI normalizer on arbitrary strings *)

NormAlphabet == {"https://d", "oi.org/", " ", "x"}

NormInit ==
    /\ raw \in SeqsUpTo(NormAlphabet, MaxLen)
    /\ norm = <<>>
    /\ norm_done = FALSE
    /\ BatchIdle
    /\ ExtractIdle /\ ResolveIdle /\ ValidateIdle /\ MirrorIdle /\ FetchIdle

\* download_paper, lines 64-66
ApplyNormalize ==
    /\ ~norm_done
    /\ norm' = NormalizeDoi(raw)
    /\ norm_done' = TRUE
    /\ UNCHANGED <<raw, batchVars, extractVars, resolveVars, validateVars, mirrorVars, fetchVars>>

NormNext == ApplyNormalize

SpecNorm == NormInit /\ [][NormNext]_vars

----------------------------------------------------------------------------
(* The PDF link heuristics on arbitrary pages *)

ExtractInit ==
    /\ html \in SeqsUpTo(Elements, MaxNodes)
    /\ pdf_url = NoAttr
    /\ extracted = FALSE
    /\ BatchIdle
    /\ NormIdle /\ ResolveIdle /\ ValidateIdle /\ MirrorIdle /\ FetchIdle

\* download_paper, lines 80-111
ApplyExtract ==
    /\ ~extracted
    /\ pdf_url' = ExtractPdfLink(html)
    /\ extracted' = TRUE
    /\ UNCHANGED <<html, batchVars, normVars, resolveVars, validateVars, mirrorVars, fetchVars>>

ExtractNext == ApplyExtract

SpecExtract == ExtractInit /\ [][ExtractNext]_vars

----------------------------------------------------------------------------
(* The URL resolver on arbitrary candidates *)

\* pdf_url is truthy at line 114: a non-empty string
Candidates == SeqsUpTo(UrlTokens, MaxLen) \ {<<>>}

ResolveBases == {<<"https:", "/", "/", "mirror.example", "/">>,
                 <<"http:", "/", "/", "mirror.example", "/", "sub", "/">>}

ResolveInit ==
    /\ cand \in Candidates
    /\ base \in ResolveBases
    /\ resolved = <<>>
    /\ resolve_done = FALSE
    /\ BatchIdle
    /\ NormIdle /\ ExtractIdle /\ ValidateIdle /\ MirrorIdle /\ FetchIdle

\* download_paper, lines 113-119
ApplyResolve ==
    /\ ~resolve_done
    /\ resolved' = ResolveUrl(cand, base)
    /\ resolve_done' = TRUE
    /\ UNCHANGED <<cand, base, batchVars, normVars, extractVars, validateVars,
                   mirrorVars, fetchVars>>

ResolveNext == ApplyResolve

SpecResolve == ResolveInit /\ [][ResolveNext]_vars

----------------------------------------------------------------------------
(* The content check on arbitrary payloads *)

Bodies ==
    {c \in [size : {500, 9999, 10000, 20000},
            at : {-1, 0, 990, 995, 996, 1000},
            word : Words \cup {""}] :
        /\ (c.at = -1) = (c.word = "")
        /\ c.at + WordLen(c.word) <= c.size}

ContentTypes == {"application/pdf", "text/html", ""}

ValidateInit ==
    /\ content \in Bodies
    /\ content_type \in ContentTypes
    /\ accepted = FALSE
    /\ validated = FALSE
    /\ BatchIdle
    /\ NormIdle /\ ExtractIdle /\ ResolveIdle /\ MirrorIdle /\ FetchIdle

\* download_paper, lines 128-148, after a PDF fetch that answered 200 and a
\* write that succeeded
ApplyValidate ==
    /\ ~validated
    /\ accepted' = ~RejectAsHtml(Sniff(content))
    /\ validated' = TRUE
    /\ UNCHANGED <<content, content_type, batchVars, normVars, extractVars,
                   resolveVars, mirrorVars, fetchVars>>

ValidateNext == ApplyValidate

SpecValidate == ValidateInit /\ [][ValidateNext]_vars

----------------------------------------------------------------------------
(* The mirror list on arbitrary selections *)

MaxCustom == 2

\* the default mirrors as strings of one token each
DefaultMirrorList == [k \in 1..Len(DefaultMirrors) |-> <<DefaultMirrors[k]>>]

\* st.multiselect returns options of default_mirrors, none of them twice
Selections ==
    {s \in SeqsUpTo({DefaultMirrorList[k] : k \in 1..Len(DefaultMirrorList)},
                    Len(DefaultMirrorList)) :
        \A j, k \in 1..Len(s) : j # k => s[j] # s[k]}

\* lines of the text area
LinePool == {<<>>, <<" ">>,
             <<"https://sci-hub.box/">>, <<" ", "https://sci-hub.box/", " ">>,
             <<"https://x/">>, <<"https://y/">>}

MirrorInit ==
    /\ selected_defaults \in Selections
    /\ custom_lines \in SeqsUpTo(LinePool, MaxCustom)
    /\ all_mirrors = <<>>
    /\ mirrors_built = FALSE
    /\ BatchIdle
    /\ NormIdle /\ ExtractIdle /\ ResolveIdle /\ ValidateIdle /\ FetchIdle

\* main, lines 280-288
ApplyBuildMirrors ==
    /\ ~mirrors_built
    /\ all_mirrors' = BuildMirrors(selected_defaults, custom_lines, DefaultMirrorList)
    /\ mirrors_built' = TRUE
    /\ UNCHANGED <<selected_defaults, custom_lines, batchVars, normVars,
                   extractVars, resolveVars, validateVars, fetchVars>>

MirrorNext == ApplyBuildMirrors

SpecMirrors == MirrorInit /\ [][MirrorNext]_vars

----------------------------------------------------------------------------
(* fetch_with_bypass on arbitrary answers *)

FetchUrls == {<<"https://sci-hub.box/", "10.1/A">>,
              <<"https://sci-hub.se/", "10.1/A">>,
              <<"https://oa/", "p", ".pdf">>}

\* lines 14-21, by the browser each names
UserAgents == {"Chrome/115.0", "Version/15.4", "Chrome/112.0"}

\* what one GET may answer: a status, or a transport exception
GetAnswers == {Raised(<<>>)} \cup {Resp(st, <<>>) : st \in {200, 403, 404, 500, 503}}

FetchInit ==
    /\ f_url \in FetchUrls
    /\ f_headers \in UserAgents
    /\ f_pc = "start"
    /\ f_requests = <<>>
    /\ f_responses = <<>>
    /\ BatchIdle
    /\ NormIdle /\ ExtractIdle /\ ResolveIdle /\ ValidateIdle /\ MirrorIdle

\* lines 26-27 and, unless the status asks for the proxy, line 31
DirectGet ==
    /\ f_pc = "start"
    /\ \E r \in GetAnswers :
          /\ f_requests' = Append(f_requests, Get(f_url, f_headers))
          /\ f_responses' = Append(f_responses, r)
          /\ f_pc' = IF r.exc THEN "raised"
                     ELSE IF NeedsBypass(r.status) THEN "retry"
                     ELSE "returned"
    /\ UNCHANGED <<f_url, f_headers, batchVars, normVars, extractVars,
                   resolveVars, validateVars, mirrorVars>>

\* lines 29-31
ProxyGet ==
    /\ f_pc = "retry"
    /\ \E r \in GetAnswers :
          /\ f_requests' = Append(f_requests, Get(ProxyUrl(f_url), f_headers))
          /\ f_responses' = Append(f_responses, r)
          /\ f_pc' = IF r.exc THEN "raised" ELSE "returned"
    /\ UNCHANGED <<f_url, f_headers, batchVars, normVars, extractVars,
                   resolveVars, validateVars, mirrorVars>>

FetchNext == DirectGet \/ ProxyGet

SpecFetch == FetchInit /\ [][FetchNext]_vars

----------------------------------------------------------------------------
(* Several batches in one session *)

\* the uploads of the session: one DOI each
RunDoiLists == {<<DoiA>>, <<DoiB>>}
\* the mirror selection of the session: the first default mirror
RunMirrors == SubSeq(DefaultMirrors, 1, 1)

\* main, lines 292-305: "Download Papers" pressed; papers/ and the
\* session's buffers are as the last run left them
NewBatch ==
    /\ pc \in {"idle", "packaged", "raised"}
    /\ doi_list' \in RunDoiLists
    /\ mirrors' = RunMirrors
    /\ successful_dois' = <<>>
    /\ failed_dois' = <<>>
    /\ i' = 0
    /\ m' = 1
    /\ success' = FALSE
    /\ trace' = <<>>
    /\ oa_payload' = NoPayload
    /\ oa_api' = NoApi
    /\ oa_fetch' = NoAttr
    /\ files_at_start' = IF dir_exists THEN files ELSE {}
    /\ pc' = "loop"
    /\ UNCHANGED <<dir_exists, files, zip_buffer, failed_buffer>>
    /\ UNCHANGED otherVars

\* main, lines 258-266, with clear_papers_directory (lines 33-37): the
\* directory is removed and the session keys are deleted
Reset ==
    /\ pc \in {"packaged", "raised"}
    /\ dir_exists' = FALSE
    /\ files' = {}
    /\ zip_buffer' = NoZip
    /\ failed_buffer' = NoManifest
    /\ files_at_start' = {}
    /\ pc' = "idle"
    /\ UNCHANGED <<doi_list, mirrors, successful_dois, failed_dois, i, m, success,
                   trace, oa_payload, oa_api, oa_fetch>>
    /\ UNCHANGED otherVars

RunsNext ==
    \/ Next
    \/ NewBatch
    \/ Reset

\* a fresh session: nothing run yet, no papers/ directory
RunsInit ==
    /\ BatchIdle
    /\ NormIdle /\ ExtractIdle /\ ResolveIdle /\ ValidateIdle /\ MirrorIdle /\ FetchIdle

SpecRuns == RunsInit /\ [][RunsNext]_vars


----------------------------------------------------------------------------
(* Properties *)

Range(f) == {f[k] : k \in 1..Len(f)}
Count(f, x) == Cardinality({k \in 1..Len(f) : f[k] = x})
MinOf(S) == CHOOSE k \in S : \A j \in S : k <= j

IsMirrorEvent(e) == e.kind = "mirror"
IsSleepEvent(e) == e.kind = "sleep"
MirrorEvents == SelectSeq(trace, IsMirrorEvent)
SleepEvents == SelectSeq(trace, IsSleepEvent)

\* C1 (as stated): when batch_download returns, the two lists together are
\* as long as the input, and every input DOI appears in exactly one of the
\* two lists, exactly once.
C1_EveryDoiOnceInOneList ==
    pc = "done" =>
        /\ Len(successful_dois) + Len(failed_dois) = Len(doi_list)
        /\ \A d \in Range(doi_list) :
               Count(successful_dois, d) + Count(failed_dois, d) = 1

\* C1 (amended): when batch_download returns, the two lists together are as
\* long as the input, and every DOI occurs in the two lists together exactly
\* as many times as it occurs in the input (each input entry is recorded
\* once, in one list); a DOI that occurs once in the input therefore appears
\* in exactly one list, exactly once.
C1_EveryEntryOnceInOneList ==
    pc = "done" =>
        /\ Len(successful_dois) + Len(failed_dois) = Len(doi_list)
        /\ \A d \in DoiPool :
               Count(successful_dois, d) + Count(failed_dois, d) = Count(doi_list, d)
        /\ \A d \in Range(doi_list) :
               Count(doi_list, d) = 1 =>
                   /\ Count(successful_dois, d) + Count(failed_dois, d) = 1
                   /\ (d \in Range(successful_dois)) # (d \in Range(failed_dois))

C1_Witness ==
    /\ pc = "done"
    /\ Len(doi_list) = 2
    /\ doi_list[1] # doi_list[2]
    /\ Len(successful_dois) = 1
    /\ Len(failed_dois) = 1

\* C2: no exception raised while a DOI is being processed leaves
\* batch_download; the DOI is recorded as failed and the batch goes on.
C2_NoExceptionEscapes == pc # "raised"

\* C3: the mirrors attempted for a DOI are a prefix of the mirror list, in
\* the configured order, and a successful mirror attempt is the last step of
\* the chain: no later mirror attempt, no sleep, no open-access lookup.
C3_MirrorsInOrderStopAtFirstSuccess ==
    /\ Len(MirrorEvents) <= Len(mirrors)
    /\ \A k \in 1..Len(MirrorEvents) : MirrorEvents[k].m = k
    /\ \A k \in 1..Len(trace) :
           (trace[k].kind = "mirror" /\ trace[k].ret = "True") => k = Len(trace)
    /\ (\E k \in 1..Len(trace) : trace[k].kind = "oa") =>
           \A k \in 1..Len(MirrorEvents) : MirrorEvents[k].ret = "False"

\* three mirrors, only the second yields a valid PDF: two attempts, no third
C3_Witness ==
    /\ Len(mirrors) = 3
    /\ pc = "record"
    /\ success
    /\ Len(MirrorEvents) = 2
    /\ MirrorEvents[1].ret = "False"
    /\ MirrorEvents[2].ret = "True"
    /\ trace[Len(trace)] = MirrorEvents[2]

\* C4: a sleep happens only between two mirror attempts (never before the
\* first attempt, never between the last mirror and the open-access lookup,
\* never after it), so a finished chain with k >= 1 mirror attempts has
\* slept exactly k-1 times.
C4_SleepOnlyBetweenMirrorAttempts ==
    /\ \A k \in 1..Len(trace) :
           trace[k].kind = "sleep" =>
               /\ k > 1
               /\ trace[k - 1].kind = "mirror"
               /\ (k < Len(trace) => trace[k + 1].kind = "mirror")
    /\ (pc = "record" /\ Len(MirrorEvents) >= 1) =>
           Len(SleepEvents) = Len(MirrorEvents) - 1

\* C5: a payload fetched through the open-access fallback that is shorter
\* than 10,000 bytes and carries an HTML marker in its first 1,000 bytes is
\* rejected: the chain ends failed and no file for the DOI remains.
C5_OpenAccessPayloadValidated ==
    (pc = "record" /\ oa_payload # NoPayload /\ RejectAsHtml(oa_payload)) =>
        /\ ~success
        /\ FileName(doi_list[i]) \notin files
        /\ FileName(NormalizeDoi(doi_list[i])) \notin files

C7_ResultsCarryNormalizedDoi ==
    \A d \in Range(successful_dois) \cup Range(failed_dois) :
        /\ ~StartsWith(d, DoiPrefix)
        /\ d = NormalizeDoi(d)

\* C8 (as stated): for every raw string the normalizer is idempotent,
\* normalize(prefix + d) = normalize(d), and its result neither begins with
\* the prefix nor has leading or trailing whitespace.
C8_NormalizeIdempotent ==
    norm_done =>
        /\ NormalizeDoi(norm) = norm
        /\ NormalizeDoi(DoiPrefix \o raw) = NormalizeDoi(raw)
        /\ ~StartsWith(norm, DoiPrefix)
        /\ Strip(norm) = norm

Contains(s, p) ==
    \E k \in 1..(Len(s) - Len(p) + 1) : SubSeq(s, k, k + Len(p) - 1) = p

\* C8 (amended): the normalizer is idempotent, and its result has neither the
\* prefix nor surrounding whitespace, for every raw string whose trimmed form
\* does not begin with the prefix, or is the prefix followed by a d that has
\* no surrounding whitespace and does not contain the prefix; for such a d,
\* normalize(prefix + d) = normalize(d) = d.
C8_NormalizeIdempotentOnCleanDoi ==
    norm_done =>
        LET t == Strip(raw)
            d == SubSeq(t, Len(DoiPrefix) + 1, Len(t))
            settled == /\ NormalizeDoi(norm) = norm
                       /\ ~StartsWith(norm, DoiPrefix)
                       /\ Strip(norm) = norm
        IN  /\ ~StartsWith(t, DoiPrefix) => settled
            /\ (StartsWith(t, DoiPrefix) /\ Strip(d) = d /\ ~Contains(d, DoiPrefix)) =>
                   /\ settled
                   /\ norm = d
                   /\ norm = NormalizeDoi(d)

\* a padded, prefixed DOI has been normalized to its bare form
C8_Witness ==
    /\ norm_done
    /\ raw # Strip(raw)
    /\ StartsWith(Strip(raw), DoiPrefix)
    /\ norm = <<"x">>
    /\ NormalizeDoi(norm) = norm

\* C9: after a batch that started with an empty output directory, the
\* directory holds exactly one file {sanitized_doi}.pdf for each DOI in
\* successful and no file for a DOI in failed.
C9_FilesAreExactlyTheSuccessfulDois ==
    pc = "done" =>
        /\ files = {FileName(NormalizeDoi(d)) : d \in Range(successful_dois)}
        /\ \A d \in Range(failed_dois) : FileName(NormalizeDoi(d)) \notin files

IframeIdx == {k \in 1..Len(html) : html[k].tag = "iframe"}
EmbedIdx == {k \in 1..Len(html) : html[k].tag = "embed"}
PdfAnchorIdx ==
    {k \in 1..Len(html) :
        /\ html[k].tag = "a"
        /\ Truthy(html[k].attr)
        /\ html[k].attr.val[Len(html[k].attr.val)] = ".pdf"}
AnchorIdxIn(boxes) ==
    {k \in 1..Len(html) :
        html[k].tag = "a" /\ html[k].box \in boxes /\ Truthy(html[k].attr)}

\* the value the four heuristics select, in priority order, when the fourth
\* looks inside the elements named by boxes
Selected(boxes) ==
    IF IframeIdx # {} /\ Truthy(html[MinOf(IframeIdx)].attr)
    THEN html[MinOf(IframeIdx)].attr
    ELSE IF EmbedIdx # {} /\ Truthy(html[MinOf(EmbedIdx)].attr)
    THEN html[MinOf(EmbedIdx)].attr
    ELSE IF PdfAnchorIdx # {}
    THEN html[MinOf(PdfAnchorIdx)].attr
    ELSE IF AnchorIdxIn(boxes) # {}
    THEN html[MinOf(AnchorIdxIn(boxes))].attr
    ELSE NoAttr

\* C10 (as stated): the result is that of the first matching heuristic among
\* first iframe src, first embed src, first anchor ending in .pdf, first
\* href-bearing anchor inside the element with id download (whatever element
\* carries the id); none only if none matches.
C10_FirstMatchingHeuristicAnyElement ==
    extracted => pdf_url = Selected({"div", "other"})

\* C10 (amended): the same, with the fourth heuristic looking only inside
\* the first div element with id download; an anchor inside another kind of
\* element with that id is not considered.
C10_FirstMatchingHeuristicDiv ==
    extracted => pdf_url = Selected({"div"})

\* a page with an iframe src and an anchor ending in .pdf: the iframe wins
C10_Witness ==
    /\ extracted
    /\ IframeIdx # {}
    /\ PdfAnchorIdx # {}
    /\ Truthy(html[MinOf(IframeIdx)].attr)
    /\ html[MinOf(IframeIdx)].attr # html[MinOf(PdfAnchorIdx)].attr
    /\ pdf_url = html[MinOf(IframeIdx)].attr

\* C11: the resolver returns 'https:' + c if c starts with '//'; else c
\* unchanged if c already has a scheme (it begins scheme://), whatever the
\* scheme; else origin + c
\* if c starts with '/', and origin + '/' + c otherwise, with origin the
\* scheme://host of the mirror.
C11_ResolveKeepsAnyScheme ==
    resolve_done =>
        resolved =
            IF Len(cand) >= 2 /\ cand[1] = "/" /\ cand[2] = "/"
            THEN <<"https:">> \o cand
            ELSE IF Len(cand) >= 3 /\ cand[1] \in SchemeTokens
                    /\ cand[2] = "/" /\ cand[3] = "/"
            THEN cand
            ELSE IF cand[1] = "/"
            THEN SubSeq(base, 1, 4) \o cand
            ELSE SubSeq(base, 1, 4) \o <<"/">> \o cand

\* C12: a mirror payload shorter than 10,000 bytes is rejected if and only
\* if its first 1,000 bytes hold '<html' or '<!doctype html' in any letter
\* case; a payload of 10,000 bytes or more is accepted whatever its content
\* and its declared content type.
C12_RejectedIffSmallAndHtml ==
    validated =>
        LET marked == /\ content.word \in {"<html", "<HTML", "<!doctype html", "<!DOCTYPE HTML"}
                      /\ content.at + WordLen(content.word) <= 1000
        IN  /\ content.size >= 10000 => accepted
            /\ content.size < 10000 => (accepted = ~marked)

\* a 500-byte payload starting with <html has been rejected
C12_Witness ==
    /\ validated
    /\ content.size = 500
    /\ content.at = 0
    /\ content.word = "<html"
    /\ ~accepted

\* the selected defaults followed by the non-blank custom lines, trimmed
Supplied == selected_defaults \o CustomMirrorsList(custom_lines)
FirstOccurrences ==
    {k \in 1..Len(Supplied) : \A j \in 1..(k - 1) : Supplied[j] # Supplied[k]}

\* C13: the mirror list handed to the batch is the selected defaults
\* followed by the custom mirrors, without repetitions (first occurrences,
\* original order), cut to its first 3 entries; it is the default list when
\* nothing is supplied; it is never empty, never longer than 3 and never
\* holds an entry twice.
C13_MirrorListDedupedAndCapped ==
    mirrors_built =>
        /\ Len(all_mirrors) \in 1..3
        /\ \A j, k \in 1..Len(all_mirrors) : j # k => all_mirrors[j] # all_mirrors[k]
        /\ Supplied = <<>> => all_mirrors = DefaultMirrorList
        /\ Supplied # <<>> =>
               /\ Len(all_mirrors) =
                      IF Cardinality(FirstOccurrences) > 3 THEN 3
                      ELSE Cardinality(FirstOccurrences)
               /\ \A n \in 1..Len(all_mirrors) :
                      \E k \in FirstOccurrences :
                          /\ Cardinality({j \in FirstOccurrences : j <= k}) = n
                          /\ all_mirrors[n] = Supplied[k]

\* more than three distinct mirrors, one of them supplied twice: three remain
C13_Witness ==
    /\ mirrors_built
    /\ Cardinality(FirstOccurrences) > 3
    /\ Len(Supplied) > Cardinality(FirstOccurrences)
    /\ Len(all_mirrors) = 3
    /\ all_mirrors = SubSeq(selected_defaults, 1, 3)

\* C14: every step of a DOI's chain uses the normalized DOI: the mirror URL,
\* the Unpaywall URL and the output file name are built from the DOI without
\* the https://doi.org/ prefix.
C14_EveryStepUsesNormalizedDoi ==
    /\ \A k \in 1..Len(trace) :
           trace[k].kind \in {"mirror", "oa"} =>
               /\ trace[k].doi = NormalizeDoi(doi_list[i])
               /\ ~StartsWith(trace[k].doi, DoiPrefix)
    /\ files \subseteq {FileName(NormalizeDoi(d)) : d \in Range(doi_list)}

\* C15: fetch_with_bypass issues one direct GET; if and only if that answers
\* 403 it issues exactly one more GET, to https://r.jina.ai/{url} with the
\* same headers, and returns that response whatever its status; at most two
\* requests are made, and a transport exception of either request leaves
\* the function.
C15_OneRetryOnForbiddenOnly ==
    LET n == Len(f_requests)
        over == f_pc \in {"returned", "raised"}
    IN  /\ n <= 2
        /\ Len(f_responses) = n
        /\ n >= 1 => f_requests[1] = [url |-> f_url, headers |-> f_headers]
        /\ n = 2 =>
               /\ ~f_responses[1].exc
               /\ f_responses[1].status = 403
               /\ f_requests[2] = [url |-> <<"https://r.jina.ai/">> \o f_url,
                                   headers |-> f_headers]
        /\ (over /\ n = 1) => (f_responses[1].exc \/ f_responses[1].status # 403)
        /\ over => n >= 1
        /\ f_pc = "returned" => ~f_responses[n].exc
        /\ f_pc = "raised" => f_responses[n].exc
        /\ (n >= 1 /\ f_responses[n].exc) => f_pc = "raised"

\* the proxy answered 403 as well, and that response was returned
C15_Witness ==
    /\ f_pc = "returned"
    /\ Len(f_requests) = 2
    /\ f_responses[2].status = 403

\* C16: a mirror attempt that returns failure leaves no file of its own
\* behind: whatever it wrote is removed before the chain moves on, so a
\* failed attempt adds no file to the output directory.
C16_FailedMirrorAttemptLeavesNoFile ==
    [][(pc = "mirror" /\ pc' = "sleep") => files' \subseteq files]_vars

\* C17: the normalizer returns the trimmed input with the one leading
\* occurrence of the prefix removed when the trimmed input begins with it,
\* and the trimmed input otherwise; nothing else is altered.
C17_OnlyLeadingPrefixRemoved ==
    norm_done =>
        LET t == Strip(raw)
        IN  norm = IF Len(t) >= 2 /\ t[1] = "https://d" /\ t[2] = "oi.org/"
                   THEN SubSeq(t, 3, Len(t))
                   ELSE t

\* download_open_access has just returned to try_download_with_mirrors
OaStepTaken == pc = "record" /\ trace # <<>> /\ trace[Len(trace)].kind = "oa"

\* the URL the claim names for an Unpaywall answer
OaExpected ==
    LET best == oa_api.body.best
        locs == oa_api.body.locs
        with == {k \in 1..Len(locs) : locs[k].has /\ locs[k].val # <<>>}
    IN  IF oa_api.exc \/ oa_api.status # 200 THEN NoAttr
        ELSE IF best.has /\ best.val # <<>> THEN best
        ELSE IF with # {} THEN locs[MinOf(with)]
        ELSE NoAttr

\* C18: the open-access resolver yields none on a non-200 answer, else
\* best_oa_location.url_for_pdf when present, else the url_for_pdf of the
\* first entry of oa_locations that has one, else none; when it yields none
\* no PDF fetch is issued and the chain ends failed there.
C18_OpenAccessUrlChoice ==
    OaStepTaken =>
        /\ oa_fetch = OaExpected
        /\ ~OaExpected.has =>
               /\ oa_payload = NoPayload
               /\ trace[Len(trace)].ret = "False"
               /\ ~success

\* the best location's url_for_pdf is empty, the first location has none,
\* the second one is used
C18_Witness ==
    /\ OaStepTaken
    /\ oa_api.status = 200
    /\ oa_api.body.best = Attr(<<>>)
    /\ oa_api.body.locs = <<NoAttr, OaUrl2>>
    /\ oa_fetch = OaUrl2

\* s can be obtained from t by deleting entries
RECURSIVE IsSubseq(_, _)
IsSubseq(s, t) ==
    IF s = <<>> THEN TRUE
    ELSE IF t = <<>> THEN FALSE
    ELSE IF s[1] = t[1] THEN IsSubseq(Tail(s), Tail(t))
    ELSE IsSubseq(s, Tail(t))

\* the lines of a text
RECURSIVE SplitLines(_)
SplitLines(text) ==
    LET breaks == {k \in 1..Len(text) : text[k] = "\n"}
    IN  IF breaks = {} THEN <<text>>
        ELSE <<SubSeq(text, 1, MinOf(breaks) - 1)>>
                 \o SplitLines(SubSeq(text, MinOf(breaks) + 1, Len(text)))

\* C19: the DOIs are processed in input order, so each result list is a
\* subsequence of the input list, and the failure manifest has exactly
\* len(failed) lines, the i-th line being the i-th failed DOI.
C19_ManifestListsFailedInOrder ==
    /\ IsSubseq(successful_dois, doi_list)
    /\ IsSubseq(failed_dois, doi_list)
    /\ (pc = "packaged" /\ failed_buffer.has) =>
           SplitLines(failed_buffer.text) = failed_dois

\* the names a batch can have written for the entries of its successful list
\* (download_paper names the file after the normalized DOI, line 132;
\* download_open_access after the DOI as given, line 186)
OwnFiles ==
    {FileName(NormalizeDoi(d)) : d \in Range(successful_dois)}
        \cup {FileName(d) : d \in Range(successful_dois)}

\* C20: over any sequence of batches and resets, the archive built after a
\* batch holds the files of that batch's successful DOIs only: a file that
\* an earlier batch left in the output directory, with no reset since, is
\* never in a later batch's archive.
C20_ArchiveHoldsOnlyThisBatch ==
    (pc = "packaged" /\ zip_buffer.has) =>
        \A f \in zip_buffer.names : f \in files_at_start => f \in OwnFiles

====
